---- MODULE Spec2Model ----
(***************************************************************************)
(* The documentation crawler of src/python: the command line entry point   *)
(* (crawl.py), the configuration (models.py) and the recursive traversal   *)
(* (docu_crawler.py).                                                      *)
(*                                                                         *)
(* Strings are sequences of one-character strings, so that prefixes,       *)
(* suffixes, fragments and URL parsing are computed on the characters as   *)
(* the code computes them.                                                 *)
(*                                                                         *)
(* The recursion of crawl_page is an explicit stack of frames; one step of *)
(* the model is one iteration of the loop over a page's anchors (with the  *)
(* whole entry of the callee up to its own loop), or the end of a call.    *)
(* The fetched pages are inputs: the outcome of each fetch and the anchors *)
(* of each page are drawn when the code reads them (a URL is fetched at    *)
(* most once per run, so this is any fixed web of pages, each with any     *)
(* finite list of anchors over Hrefs).                                     *)
(*                                                                         *)
(* The environment is assumed to accept the output file and the print (a   *)
(* full disk is not modelled).                                             *)
(***************************************************************************)
EXTENDS Integers, Sequences, FiniteSets, TLC

\* ------------------------------------------------------------------ bounds

\* largest --max-depth drawn
MaxDepthBound == 2
\* largest --max-pages drawn
MaxPagesBound == 4

\* ----------------------------------------------------------------- strings

LowerLetters == <<"a","b","c","d","e","f","g","h","i","j","k","l","m","n","o","p","q","r","s","t","u","v","w","x","y","z">>
UpperLetters == <<"A","B","C","D","E","F","G","H","I","J","K","L","M","N","O","P","Q","R","S","T","U","V","W","X","Y","Z">>

Range(s) == {s[i] : i \in 1..Len(s)}

\* str.lower() on one character
LowerChar(c) ==
  IF \E i \in 1..26 : UpperLetters[i] = c
  THEN LowerLetters[CHOOSE i \in 1..26 : UpperLetters[i] = c]
  ELSE c

\* str.lower()
Lower(s) == [i \in 1..Len(s) |-> LowerChar(s[i])]

\* s.startswith(p)
StartsWith(s, p) == Len(p) <= Len(s) /\ SubSeq(s, 1, Len(p)) = p

\* s.endswith(p)
EndsWith(s, p) == Len(p) <= Len(s) /\ SubSeq(s, Len(s) - Len(p) + 1, Len(s)) = p

\* s[:n]
Prefix(s, n) == SubSeq(s, 1, IF n < Len(s) THEN n ELSE Len(s))

\* s.find(c) from position from (1-based); Len(s) + 1 when absent
Find(s, cs, from) ==
  IF \E i \in from..Len(s) : s[i] \in cs
  THEN CHOOSE i \in from..Len(s) : s[i] \in cs /\ \A j \in from..(i - 1) : s[j] \notin cs
  ELSE Len(s) + 1

\* sep.join(parts)
RECURSIVE Join(_, _)
Join(sep, parts) ==
  IF parts = <<>> THEN <<>>
  ELSE IF Len(parts) = 1 THEN parts[1]
  ELSE parts[1] \o sep \o Join(sep, Tail(parts))

\* s.split(c) for a character c, from position i on, cur the part being read
RECURSIVE SplitAt(_, _, _, _)
SplitAt(s, c, i, cur) ==
  IF i > Len(s) THEN <<cur>>
  ELSE IF s[i] = c THEN <<cur>> \o SplitAt(s, c, i + 1, <<>>)
  ELSE SplitAt(s, c, i + 1, Append(cur, s[i]))

\* url.split('#')[0]
StripFragment(url) == SubSeq(url, 1, Find(url, {"#"}, 1) - 1)

\* --------------------------------------------------- urllib.parse (library)

SchemeChars == Range(LowerLetters) \cup Range(UpperLetters)
                 \cup {"0","1","2","3","4","5","6","7","8","9","+","-","."}

\* urlsplit: the position of the ':' ending the scheme, 0 when the URL has none
SchemeEnd(url) ==
  LET i == Find(url, {":"}, 1)
  IN IF /\ i > 1 /\ i <= Len(url)
        /\ url[1] \in Range(LowerLetters) \cup Range(UpperLetters)
        /\ \A j \in 1..(i - 1) : url[j] \in SchemeChars
     THEN i ELSE 0

\* urlsplit(url).scheme
Scheme(url) == Lower(SubSeq(url, 1, SchemeEnd(url) - 1))

\* urlsplit(url).netloc: what follows '//' up to the first of '/', '?', '#'
Netloc(url) ==
  LET rest == SubSeq(url, SchemeEnd(url) + 1, Len(url))
  IN IF StartsWith(rest, <<"/","/">>)
     THEN SubSeq(rest, 3, Find(rest, {"/","?","#"}, 3) - 1)
     ELSE <<>>

\* urlsplit raises ValueError("Invalid IPv6 URL") on an unbalanced bracket
UrlSplitRaises(url) ==
  LET host == Range(Netloc(url))
  IN ("[" \in host) # ("]" \in host)

\* urlsplit(url).fragment
Fragment(url) == SubSeq(url, Find(url, {"#"}, 1) + 1, Len(url))

\* urlsplit(url).query
Query(url) ==
  LET u == StripFragment(url)
  IN SubSeq(u, Find(u, {"?"}, 1) + 1, Len(u))

\* urlsplit(url).path
Path(url) ==
  LET u == StripFragment(url)
      rest == SubSeq(u, SchemeEnd(url) + 1, Find(u, {"?"}, 1) - 1)
  IN IF StartsWith(rest, <<"/","/">>)
     THEN SubSeq(rest, 3 + Len(Netloc(url)), Len(rest))
     ELSE rest

\* urljoin's loop over the segments of an absolute path, from segment i on:
\* '..' removes the segment before it, '.' is dropped
RECURSIVE ResolveSegments(_, _, _)
ResolveSegments(segments, i, resolved_path) ==
  IF i > Len(segments) THEN resolved_path
  ELSE IF segments[i] = <<".", ".">>
         THEN ResolveSegments(segments, i + 1,
                SubSeq(resolved_path, 1, Len(resolved_path) - 1))
  ELSE IF segments[i] = <<".">>
         THEN ResolveSegments(segments, i + 1, resolved_path)
  ELSE ResolveSegments(segments, i + 1, Append(resolved_path, segments[i]))

\* urljoin: the path of the result for an absolute path
ResolvedPath(path) ==
  LET segments == SplitAt(path, "/", 1, <<>>)
      resolved_path == ResolveSegments(segments, 1, <<>>)
      closed == IF segments[Len(segments)] \in {<<".">>, <<".", ".">>}
                THEN Append(resolved_path, <<>>)
                ELSE resolved_path
      joined == Join(<<"/">>, closed)
  IN IF joined = <<>> THEN <<"/">> ELSE joined

\* urlunsplit: a path after a host begins with '/', an empty query or
\* fragment is left out
UrlUnsplit(scheme, netloc, path, query, fragment) ==
  scheme \o <<":","/","/">> \o netloc
    \o (IF path # <<>> /\ Head(path) # "/" THEN <<"/">> ELSE <<>>) \o path
    \o (IF query # <<>> THEN <<"?">> \o query ELSE <<>>)
    \o (IF fragment # <<>> THEN <<"#">> \o fragment ELSE <<>>)

\* urljoin(base, url) for a url that begins with '/': a network-path
\* reference ('//host/...') keeps only the base's scheme, an absolute path
\* replaces the base's path and has its dot segments resolved
UrlJoin(base, url) ==
  IF Netloc(url) # <<>>
  THEN UrlUnsplit(Scheme(base), Netloc(url), Path(url), Query(url), Fragment(url))
  ELSE UrlUnsplit(Scheme(base), Netloc(base), ResolvedPath(Path(url)),
                  Query(url), Fragment(url))

\* ------------------------------------------------------------ the inputs

\* 'https://ex.com/docs/page1'
SeedDocs == <<"h","t","t","p","s",":","/","/","e","x",".","c","o","m","/","d","o","c","s","/","p","a","g","e","1">>
\* 'ftp://ex.com/'
BadSchemeUrl == <<"f","t","p",":","/","/","e","x",".","c","o","m","/">>

\* '/docs/page2'
HrefPage2 == <<"/","d","o","c","s","/","p","a","g","e","2">>
\* '/docs/page2#a'
HrefPage2Frag == <<"/","d","o","c","s","/","p","a","g","e","2","#","a">>
\* 'https://ex.com/docs/page1'
HrefSeedAbs == <<"h","t","t","p","s",":","/","/","e","x",".","c","o","m","/","d","o","c","s","/","p","a","g","e","1">>
\* '//evil.io/x'
HrefNetPath == <<"/","/","e","v","i","l",".","i","o","/","x">>
\* '/a.pdf'
HrefPdf == <<"/","a",".","p","d","f">>
\* 'page3'
HrefRelative == <<"p","a","g","e","3">>
\* 'http://other.org/'
HrefOtherSite == <<"h","t","t","p",":","/","/","o","t","h","e","r",".","o","r","g","/">>
\* '//[x'
HrefBadBracket == <<"/","/","[","x">>

\* the href attributes an anchor of a fetched page may carry
Hrefs == {HrefPage2, HrefPage2Frag, HrefSeedAbs, HrefNetPath, HrefPdf,
          HrefRelative, HrefOtherSite, HrefBadBracket}

\* --url values
BaseUrls == {SeedDocs, BadSchemeUrl}

\* what session.get and raise_for_status can do for one page: succeed, or
\* raise requests.RequestException (connection failure, timeout, HTTP error
\* status); an exception of the parse or the extraction, raised before the
\* document is stored, leaves the same state as a RequestException
Outcomes == {"ok", "RequestException"}

\* the command lines: CrawlerConfig(base_url, max_depth, max_pages, timeout,
\* rate_limit_delay) as main() builds it from the parsed arguments
Configs ==
  [base_url : BaseUrls,
   max_depth : -1..MaxDepthBound,
   max_pages : 0..MaxPagesBound,
   timeout : {0, 10},
   rate_limit_delay : {-1, 0}]

\* ------------------------------------------------------------- constants

\* 'http://', 'https://'
HttpPrefixes == {<<"h","t","t","p",":","/","/">>, <<"h","t","t","p","s",":","/","/">>}

SKIP_EXTENSIONS ==
  {<<".","p","d","f">>, <<".","z","i","p">>, <<".","j","p","g">>, <<".","p","n","g">>,
   <<".","g","i","f">>, <<".","c","s","s">>, <<".","j","s">>}

\* url[:20]
SubStringLen == 20

\* ------------------------------------------------------------------ state

VARIABLES
  config,     \* the CrawlerConfig arguments of this run
  pc,         \* where main() is: "start", "crawling", "exited"
  visited,    \* DocumentationCrawler.visited
  documents,  \* DocumentationCrawler.documents: <<[url, depth]>>
  stack,      \* the active crawl_page calls inside their loop, outermost
              \* first: [url, depth]
  fetched,    \* history: the session.get calls in order, each with the
              \* call's depth, its outcome, the number of active calls
              \* above it (hops), the page whose anchor led to it (<<>> for
              \* the seed) and is_valid_url's verdict when the URL was
              \* discovered
  lastCall,   \* history: <<c>>, c the crawl_page call the latest step of
              \* the traversal made (its depth, whether its url was
              \* unvisited, whether an earlier fetch of its url had failed,
              \* whether it changed visited or documents), <<>> when that
              \* step made no call
  slept,      \* history: the URLs whose call reached time.sleep, in order
  outfile,    \* the output path: [written, kind, data], kind the JSON
              \* type of the value written ("none" before the write)
  stdout,     \* what main() printed: [printed, docs, status]
  exit,       \* <<>> while the process runs, then <<exit code>>
  call,       \* the function evaluated on its own, with its arguments
              \* ([fn |-> "main"] in a run of the command line)
  ret         \* the values that function has returned so far, in order

\* the state of a run of the command line
run == <<config, pc, visited, documents, stack, fetched, lastCall, slept,
         outfile, stdout, exit>>

vars == <<config, pc, visited, documents, stack, fetched, lastCall, slept,
          outfile, stdout, exit, call, ret>>

\* ------------------------------------------------------------- models.py

\* mutant of PostInit: the timeout is not validated
PostInit_NoTimeoutCheck(cfg) ==
  IF cfg.max_depth < 0 THEN "max_depth must be non-negative"
  ELSE IF cfg.max_pages < 1 THEN "max_pages must be at least 1"
  ELSE IF ~ \E p \in HttpPrefixes : StartsWith(cfg.base_url, p)
       THEN "base_url must start with http:// or https://"
  ELSE IF cfg.rate_limit_delay < 0 THEN "rate_limit_delay must be non-negative"
  ELSE "ok"

\* CrawlerConfig.__post_init__: the first check that fails, or "ok"
PostInit(cfg) ==
  IF cfg.max_depth < 0 THEN "max_depth must be non-negative"
  ELSE IF cfg.max_pages < 1 THEN "max_pages must be at least 1"
  ELSE IF ~ \E p \in HttpPrefixes : StartsWith(cfg.base_url, p)
       THEN "base_url must start with http:// or https://"
  ELSE IF cfg.timeout <= 0 THEN "timeout must be positive"
  ELSE IF cfg.rate_limit_delay < 0 THEN "rate_limit_delay must be non-negative"
  ELSE "ok"

\* CrawledDocument.to_dict
ToDict(doc) == [url |-> doc.url, metadata |-> [depth |-> doc.depth]]

\* -------------------------------------------------------- docu_crawler.py

\* self.base_domain
BaseDomain == Netloc(config.base_url)

\* DocumentationCrawler.is_valid_url against a visited set
is_valid_url(url, vis) ==
  IF Netloc(url) # BaseDomain THEN FALSE
  ELSE IF \E ext \in SKIP_EXTENSIONS : EndsWith(Lower(url), ext) THEN FALSE
  ELSE StripFragment(url) \notin vis

\* mutant of BudgetSpent: the page budget is tested with > for >=
BudgetSpent_PagesOffByOne(depth, vis) ==
  depth > config.max_depth \/ Cardinality(vis) > config.max_pages

\* mutant of BudgetSpent: the page budget is not tested
BudgetSpent_NoPageBudget(depth, vis) == depth > config.max_depth

\* mutant of BudgetSpent: the depth budget is not tested
BudgetSpent_NoDepthBudget(depth, vis) == Cardinality(vis) >= config.max_pages

\* mutant of BudgetSpent: the depth budget is tested with > max_depth + 1
BudgetSpent_DepthOffByOne(depth, vis) ==
  depth > config.max_depth + 1 \/ Cardinality(vis) >= config.max_pages

\* crawl_page, line 95: the depth and page budgets
BudgetSpent(depth, vis) ==
  depth > config.max_depth \/ Cardinality(vis) >= config.max_pages

\* crawl_page, line 139: the anchors the loop follows
LinkAccepted(url, href) ==
  StartsWith(href, Prefix(url, SubStringLen)) \/ StartsWith(href, <<"/">>)

\* mutant of NextUrl: the href is recursed into as it is
NextUrl_Unresolved(href) == href

\* crawl_page, lines 140-142: the URL recursed into
NextUrl(href) ==
  IF StartsWith(href, <<"/">>) THEN UrlJoin(config.base_url, href) ELSE href

\* mutant of NextDepth: the recursion passes its own depth on
NextDepth_Same(depth) == depth

\* crawl_page, line 144: the depth recursed into
NextDepth(depth) == depth + 1

\* mutant of AppendDocument: the document is put in front of the store
AppendDocument_InFront(docs, doc) == <<doc>> \o docs

\* crawl_page, line 129
AppendDocument(docs, doc) == Append(docs, doc)

\* mutant of FramesAfterError: the exception is not caught in the page's call
\* and unwinds every active call
FramesAfterError_Unwinds(callers) == <<>>

\* crawl_page, lines 149-152: an exception of the page is caught inside its
\* own call, which returns to its caller: the callers' frames stay
FramesAfterError(callers) == callers

\* mutant of MarkVisited: the URL is not recorded
MarkVisited_Forgets(vis, url) == vis

\* crawl_page, line 104
MarkVisited(vis, url) == vis \cup {url}

\* mutant of Fetched: raise_for_status is not called, an error response is
\* parsed like a page
Fetched_IgnoresStatus(outcome) == TRUE

\* crawl_page, lines 106-107: the response arrived and its status is no error
Fetched(outcome) == outcome = "ok"

\* crawl_page(url, depth) from its first line up to its loop, called with
\* the frames `callers` active, from an anchor of page parent
crawl_page(url, depth, callers, outcome, parent) ==
  IF BudgetSpent(depth, visited) \/ url \in visited
  THEN /\ stack' = callers
       /\ UNCHANGED <<visited, documents, fetched>>
       /\ lastCall' = <<[fresh |-> url \notin visited, depth |-> depth,
                         retry |-> \E i \in 1..Len(fetched) :
                           fetched[i].url = url /\ fetched[i].outcome # "ok",
                         changed |-> visited' # visited \/ documents' # documents]>>
  ELSE /\ visited' = MarkVisited(visited, url)
       /\ fetched' = Append(fetched,
            [url |-> url, depth |-> depth, outcome |-> outcome,
             hops |-> Len(callers), parent |-> parent,
             valid |-> is_valid_url(url, visited)])
       /\ IF Fetched(outcome)
          THEN /\ documents' = AppendDocument(documents, [url |-> url, depth |-> depth])
               /\ stack' = Append(callers, [url |-> url, depth |-> depth])
          ELSE /\ documents' = documents
               /\ stack' = FramesAfterError(callers)
       /\ lastCall' = <<[fresh |-> url \notin visited, depth |-> depth,
                         retry |-> \E i \in 1..Len(fetched) :
                           fetched[i].url = url /\ fetched[i].outcome # "ok",
                         changed |-> visited' # visited \/ documents' # documents]>>

\* ------------------------------------------------------------------- steps

Init ==
  /\ config \in Configs
  /\ pc = "start"
  /\ visited = {}
  /\ documents = <<>>
  /\ stack = <<>>
  /\ fetched = <<>>
  /\ lastCall = <<>>
  /\ slept = <<>>
  /\ outfile = [written |-> FALSE, kind |-> "none", data |-> <<>>]
  /\ stdout = [printed |-> FALSE, docs |-> <<>>, status |-> ""]
  /\ exit = <<>>
  /\ call = [fn |-> "main"]
  /\ ret = <<>>

\* main(): CrawlerConfig raises ValueError, caught at crawl.py line 87
MainConfigError ==
  /\ pc = "start"
  /\ PostInit(config) # "ok"
  /\ pc' = "exited"
  /\ exit' = <<1>>
  /\ UNCHANGED <<config, visited, documents, stack, fetched, lastCall, slept,
                 outfile, stdout, call, ret>>

\* main() up to crawler.crawl(), crawl() and its call crawl_page(base_url, 0)
MainCrawl ==
  /\ pc = "start"
  /\ PostInit(config) = "ok"
  /\ pc' = "crawling"
  /\ \E outcome \in Outcomes :
       crawl_page(config.base_url, 0, <<>>, outcome, <<>>)
  /\ UNCHANGED <<config, slept, outfile, stdout, exit, call, ret>>

\* one iteration of the loop of lines 137-144 in the innermost active call
FollowLink ==
  /\ pc = "crawling"
  /\ stack # <<>>
  /\ \E href \in Hrefs, outcome \in Outcomes :
       LET f == stack[Len(stack)]
       IN IF ~ LinkAccepted(f.url, href)
          THEN /\ lastCall' = <<>>
               /\ UNCHANGED <<visited, documents, stack, fetched>>
          ELSE IF StartsWith(href, <<"/">>) /\ UrlSplitRaises(href)
          THEN \* urljoin raises ValueError: caught at line 151 by this call,
               \* which returns without reaching its sleep
               /\ stack' = FramesAfterError(SubSeq(stack, 1, Len(stack) - 1))
               /\ lastCall' = <<>>
               /\ UNCHANGED <<visited, documents, fetched>>
          ELSE crawl_page(NextUrl(href), NextDepth(f.depth), stack, outcome,
                          f.url)
  /\ UNCHANGED <<config, pc, slept, outfile, stdout, exit, call, ret>>

\* the loop of the innermost active call is over: line 147, then the return
ReturnPage ==
  /\ pc = "crawling"
  /\ stack # <<>>
  /\ slept' = Append(slept, stack[Len(stack)].url)
  /\ stack' = SubSeq(stack, 1, Len(stack) - 1)
  /\ lastCall' = <<>>
  /\ UNCHANGED <<config, pc, visited, documents, fetched, outfile, stdout, exit,
                 call, ret>>

\* mutant of FileValue: the result object is what is written
FileValue_ResultObject(documents_dict) ==
  [written |-> TRUE, kind |-> "object",
   data |-> [docs |-> documents_dict, status |-> "success"]]

\* main(), lines 71-75: json.dump(documents_dict, f)
FileValue(documents_dict) ==
  [written |-> TRUE, kind |-> "array", data |-> documents_dict]

\* mutant of PrintValue: a run without documents is not reported a success
PrintValue_EmptyIsFailure(documents_dict) ==
  [printed |-> TRUE, docs |-> documents_dict,
   status |-> IF documents_dict = <<>> THEN "error" ELSE "success"]

\* main(), lines 78-84: the result object, printed
PrintValue(documents_dict) ==
  [printed |-> TRUE, docs |-> documents_dict, status |-> "success"]

\* crawl() has returned: main() lines 67-85
MainFinish ==
  /\ pc = "crawling"
  /\ stack = <<>>
  /\ LET documents_dict == [i \in 1..Len(documents) |-> ToDict(documents[i])]
     IN /\ outfile' = FileValue(documents_dict)
        /\ stdout' = PrintValue(documents_dict)
  /\ pc' = "exited"
  /\ exit' = <<0>>
  /\ UNCHANGED <<config, visited, documents, stack, fetched, lastCall, slept,
                 call, ret>>

Next ==
  \/ MainConfigError
  \/ MainCrawl
  \/ FollowLink
  \/ ReturnPage
  \/ MainFinish

Spec == Init /\ [][Next]_vars

\* ------------------------------------------------------ reading the history

\* the session.get call made for url (a URL is fetched at most once)
Entry(url) == fetched[CHOOSE i \in 1..Len(fetched) : fetched[i].url = url]

\* the position of url's document in the document store
DocPos(url) == CHOOSE i \in 1..Len(documents) : documents[i].url = url

DocUrls == {documents[i].url : i \in 1..Len(documents)}

\* the position of url's fetch among the fetches of the run
FetchPos(url) == CHOOSE i \in 1..Len(fetched) : fetched[i].url = url

\* the position of the fetch made from the anchor of page p under which page
\* q was reached, 0 when q was not reached through p; the loop reads the
\* anchors of p in order, so an earlier fetch comes from an earlier anchor
RECURSIVE Branch(_, _)
Branch(q, p) ==
  IF Entry(q).parent = <<>> THEN 0
  ELSE IF Entry(q).parent = p THEN FetchPos(q)
  ELSE Branch(Entry(q).parent, p)

IsPrefix(s, t) == Len(s) <= Len(t) /\ SubSeq(t, 1, Len(s)) = s

\* the latest crawl_page call returned at its first lines because the page
\* budget was spent, not for depth or a visited URL
RefusedForPages ==
  /\ lastCall # <<>>
  /\ ~ lastCall[1].changed
  /\ lastCall[1].depth <= config.max_depth
  /\ lastCall[1].fresh

\* ----------------------------------------------------------------- claims

\* C1: every document of the result has a URL whose host is the host of the
\* seed URL.
C1_DomainContainment ==
  \A i \in 1..Len(documents) : Netloc(documents[i].url) = Netloc(config.base_url)

\* C2: no two documents of the result have URLs that are equal once the
\* fragment is stripped.
C2_DedupModuloFragment ==
  \A i, j \in 1..Len(documents) :
    i # j => StripFragment(documents[i].url) # StripFragment(documents[j].url)

\* C3: in every reachable state the visited set holds at most max_pages URLs.
C3_VisitedWithinPages == Cardinality(visited) <= config.max_pages

\* C3 witness: the visited set is full, one of its URLs failed to fetch, and
\* a further call was turned away by the page budget.
C3_Witness ==
  /\ Cardinality(visited) = config.max_pages
  /\ \E i \in 1..Len(fetched) : fetched[i].outcome # "ok"
  /\ RefusedForPages

\* C4: in every reachable state, and in what main() writes and prints, the
\* document store holds at most max_pages documents.
C4_DocumentsWithinPages ==
  /\ Len(documents) <= config.max_pages
  /\ Len(outfile.data) <= config.max_pages
  /\ Len(stdout.docs) <= config.max_pages

\* C4 witness: the store holds max_pages documents and a further call, for a
\* URL not yet visited and within the depth budget, was turned away.
C4_Witness ==
  /\ config.max_pages >= 2
  /\ Len(documents) = config.max_pages
  /\ RefusedForPages

\* C5: every document's depth d has 0 <= d <= max_depth and is the number of
\* crawl_page calls active above the call that appended it (the link hops
\* from the seed); a call with depth > max_depth changes neither the visited
\* set nor the document store.
C5_DepthIsHops ==
  /\ \A i \in 1..Len(documents) :
       /\ 0 <= documents[i].depth
       /\ documents[i].depth <= config.max_depth
       /\ documents[i].depth = Entry(documents[i].url).hops
  /\ (lastCall # <<>> /\ lastCall[1].depth > config.max_depth)
       => ~ lastCall[1].changed

\* C5 witness: a document at depth max_depth >= 1 exists and a call one level
\* deeper, for a URL not yet visited, has just been made.
C5_Witness ==
  /\ config.max_depth >= 1
  /\ \E i \in 1..Len(documents) : documents[i].depth = config.max_depth
  /\ lastCall # <<>>
  /\ lastCall[1].depth = config.max_depth + 1
  /\ lastCall[1].fresh
  /\ Cardinality(visited) < config.max_pages

\* C6: with max_depth = 0 the seed is the only URL fetched or visited and the
\* result holds at most one document.
C6_DepthZeroOnlySeed ==
  config.max_depth = 0 =>
    /\ \A i \in 1..Len(fetched) : fetched[i].url = config.base_url
    /\ visited \subseteq {config.base_url}
    /\ Len(documents) <= 1
    /\ Len(stdout.docs) <= 1

\* C6 witness: with max_depth = 0 and pages to spare, an anchor of the seed
\* page to another URL was accepted and its call made.
C6_Witness ==
  /\ config.max_depth = 0
  /\ config.max_pages >= 2
  /\ Len(documents) = 1
  /\ lastCall # <<>>
  /\ lastCall[1].depth = 1
  /\ lastCall[1].fresh

\* C7: when the fetch of a linked page raises a transport error, the document
\* store is unchanged and the parent's call stays the innermost active one,
\* in its loop over the anchors;
\* documents once stored stay stored; and the run ends with every document
\* printed, status success and exit code 0.
C7_ErrorIsolation ==
  /\ [][IsPrefix(documents, documents')]_vars
  /\ [][(/\ stack # <<>>
         /\ Len(fetched') = Len(fetched) + 1
         /\ fetched'[Len(fetched')].outcome = "RequestException")
        => /\ documents' = documents
           /\ stack' = stack]_vars
  /\ []((/\ pc = "exited"
         /\ \E i \in 1..Len(fetched) :
              fetched[i].outcome = "RequestException" /\ fetched[i].depth > 0)
        => /\ exit = <<0>>
           /\ stdout.status = "success"
           /\ stdout.docs = [i \in 1..Len(documents) |-> ToDict(documents[i])]
           /\ stdout.docs[1].url = config.base_url)

\* C7 witness: the run ended with exit code 0 after an anchor of a page
\* failed with a transport error and a later anchor of the same page gave a
\* document.
C7_Witness ==
  /\ pc = "exited"
  /\ exit = <<0>>
  /\ \E i, j \in 1..Len(fetched) :
       /\ fetched[i].outcome = "RequestException"
       /\ fetched[j].outcome = "ok"
       /\ fetched[i].parent = fetched[j].parent
       /\ fetched[i].parent # <<>>
       /\ i < j
       /\ fetched[j].url \in {stdout.docs[k].url : k \in 1..Len(stdout.docs)}

\* C8: a page's document precedes the document of every page reached through
\* its anchors, and the documents reached through its i-th anchor precede
\* those reached through a later anchor.
C8_PreOrder ==
  \A p, q \in DocUrls :
    /\ Branch(q, p) > 0 => DocPos(p) < DocPos(q)
    /\ \A r \in DocUrls :
         (0 < Branch(q, p) /\ Branch(q, p) < Branch(r, p)) => DocPos(q) < DocPos(r)

\* C8 witness: a page with a document under its first anchor, a document
\* below that one, and a document under its second anchor.
C8_Witness ==
  \E p, q, g, r \in DocUrls :
    /\ Entry(q).parent = p
    /\ Entry(g).parent = q
    /\ Entry(r).parent = p
    /\ FetchPos(q) < FetchPos(r)

\* C9: no URL that is_valid_url rejects when it is discovered on a page is
\* fetched.
C9_PolicyGatesFetch ==
  \A i \in 1..Len(fetched) : fetched[i].parent # <<>> => fetched[i].valid

\* the configurations the claim C10 calls invalid
ClaimedInvalid(cfg) ==
  \/ cfg.max_depth < 0
  \/ cfg.max_pages < 1
  \/ cfg.timeout <= 0
  \/ cfg.rate_limit_delay < 0
  \/ ~ (StartsWith(cfg.base_url, <<"h","t","t","p",":","/","/">>)
        \/ StartsWith(cfg.base_url, <<"h","t","t","p","s",":","/","/">>))

\* C10: with max_depth < 0, max_pages < 1, timeout <= 0, rate_limit_delay < 0
\* or a base_url without http:// or https://, constructing the configuration
\* fails, no fetch is issued, no output is written and the exit code is 1.
C10_ConfigErrorBeforeCrawl ==
  ClaimedInvalid(config) =>
    /\ PostInit(config) # "ok"
    /\ pc # "crawling"
    /\ fetched = <<>>
    /\ visited = {}
    /\ ~ outfile.written
    /\ ~ stdout.printed
    /\ pc = "exited" => exit = <<1>>

\* C10 witness: a run with only its timeout invalid has exited.
C10_Witness ==
  /\ pc = "exited"
  /\ config.timeout <= 0
  /\ config.max_depth >= 0
  /\ config.max_pages >= 1
  /\ config.rate_limit_delay >= 0
  /\ StartsWith(config.base_url, <<"h","t","t","p">>)

\* the pages whose crawl_page call is active
StackUrls == {stack[i].url : i \in 1..Len(stack)}

\* the call of page url fetched it, stored its document and ended without
\* reaching its sleep: an exception of its loop over the anchors was caught
LinkErrored(url) ==
  /\ \E i \in 1..Len(fetched) : fetched[i].url = url /\ fetched[i].outcome = "ok"
  /\ url \notin StackUrls
  /\ url \notin Range(slept)

\* C11: each URL is fetched at most once in a run, whether the fetch
\* succeeded or failed; a fetched URL stays in the visited set, which never
\* shrinks, and a later call for a URL whose fetch failed changes nothing.
C11_NoRetry ==
  /\ [](\A i, j \in 1..Len(fetched) : i # j => fetched[i].url # fetched[j].url)
  /\ [](\A i \in 1..Len(fetched) : fetched[i].url \in visited)
  /\ []((lastCall # <<>> /\ lastCall[1].retry) => ~ lastCall[1].changed)
  /\ [][visited \subseteq visited']_vars

\* C11 witness: with pages and depth to spare, a page's anchor led to a URL
\* whose fetch had failed.
C11_Witness ==
  /\ lastCall # <<>>
  /\ lastCall[1].retry
  /\ lastCall[1].depth <= config.max_depth
  /\ Cardinality(visited) < config.max_pages

\* C12: every crawl_page call that marked its URL visited and attempted the
\* fetch has executed the pause by the time it has returned, whether the
\* page was processed or its fetch or processing failed.
C12_PauseBeforeReturn ==
  \A i \in 1..Len(fetched) :
    fetched[i].url \notin StackUrls => fetched[i].url \in Range(slept)

\* C16 as stated: on a successful run the value written to the output path
\* is the result object with the fields docs and status = "success", the
\* object that is printed.
C16_FileHoldsResultObject ==
  (pc = "exited" /\ exit = <<0>>) =>
    /\ outfile.written
    /\ outfile.kind = "object"
    /\ outfile.data = [docs |-> stdout.docs, status |-> stdout.status]

\* C16 amended: on a successful run the value written to the output path is
\* the list of the documents in crawl order, and the result object with that
\* list as docs and status = "success" is printed.
C16_FileHoldsDocumentList ==
  (pc = "exited" /\ exit = <<0>>) =>
    /\ outfile.written
    /\ outfile.kind = "array"
    /\ outfile.data = [i \in 1..Len(documents) |-> ToDict(documents[i])]
    /\ stdout.printed
    /\ stdout.docs = outfile.data
    /\ stdout.status = "success"

\* C16 witness: a successful run wrote two documents or more.
C16_Witness ==
  /\ pc = "exited"
  /\ exit = <<0>>
  /\ outfile.written
  /\ Len(outfile.data) >= 2

\* C17 as stated: a page whose visit ended in a caught error, of its fetch or
\* of the processing of its links, has no document in the store.
C17_ErrorPageContributesNothing ==
  \A i \in 1..Len(fetched) :
    (fetched[i].outcome # "ok" \/ LinkErrored(fetched[i].url))
      => fetched[i].url \notin DocUrls

\* C17 amended: a page whose fetch failed has no document and none of its
\* links is followed; a page whose loop over the anchors raised keeps the
\* document stored before the loop, its call alone ends, without further
\* effect, and links are only ever followed from the innermost active call.
C17_ErrorPageKeepsOnlyStoredDocument ==
  /\ [](\A i \in 1..Len(fetched) :
          fetched[i].outcome # "ok" =>
            /\ fetched[i].url \notin DocUrls
            /\ \A j \in 1..Len(fetched) : fetched[j].parent # fetched[i].url)
  /\ [](\A i \in 1..Len(fetched) :
          LinkErrored(fetched[i].url) => fetched[i].url \in DocUrls)
  /\ [][(Len(stack') < Len(stack) /\ slept' = slept)
        => /\ stack' = SubSeq(stack, 1, Len(stack) - 1)
           /\ UNCHANGED <<visited, documents, fetched>>]_vars
  /\ [][(Len(fetched') > Len(fetched) /\ stack # <<>>)
        => fetched'[Len(fetched')].parent = stack[Len(stack)].url]_vars

\* C17 witness: a run ended in which one page's fetch failed and another
\* page's loop over the anchors raised.
C17_Witness ==
  /\ pc = "exited"
  /\ \E i, j \in 1..Len(fetched) :
       /\ fetched[i].outcome # "ok"
       /\ LinkErrored(fetched[j].url)
       /\ fetched[j].depth >= 1

\* ------------------------------------------- functions evaluated on their own

\* a DocumentationCrawler constructed on the seed whose visited set is vis,
\* main() left aside
CrawlerWith(vis) ==
  /\ config = [base_url |-> SeedDocs, max_depth |-> MaxDepthBound,
               max_pages |-> MaxPagesBound, timeout |-> 10,
               rate_limit_delay |-> 0]
  /\ pc = "start"
  /\ visited = vis
  /\ documents = <<>>
  /\ stack = <<>>
  /\ fetched = <<>>
  /\ lastCall = <<>>
  /\ slept = <<>>
  /\ outfile = [written |-> FALSE, kind |-> "none", data |-> <<>>]
  /\ stdout = [printed |-> FALSE, docs |-> <<>>, status |-> ""]
  /\ exit = <<>>

\* a DocumentationCrawler as __init__ leaves it
CrawlerAtRest == CrawlerWith({})

\* ---------------------------------------- TextExtractor.split_text_on_words

\* longest text handed to split_text_on_words
MaxTextLen == 5

\* largest max_length handed to split_text_on_words
MaxLengthBound == 4

\* the characters of the texts: two letters and two kinds of whitespace
TextChars == {"a", "b", " ", "\n"}

\* what str.split() and str.strip() take for whitespace
Whitespace == {" ", "\n"}

\* the texts of at most n characters
Texts(n) == UNION {[1..k -> TextChars] : k \in 0..n}

\* str.split(): the maximal runs of non-whitespace from position i on, cur the
\* run being read
RECURSIVE SplitFrom(_, _, _)
SplitFrom(s, i, cur) ==
  IF i > Len(s)
    THEN IF cur = <<>> THEN <<>> ELSE <<cur>>
    ELSE IF s[i] \in Whitespace
           THEN (IF cur = <<>> THEN <<>> ELSE <<cur>>) \o SplitFrom(s, i + 1, <<>>)
           ELSE SplitFrom(s, i + 1, Append(cur, s[i]))

\* text.split(), line 39
Split(s) == SplitFrom(s, 1, <<>>)

\* str.lstrip()
RECURSIVE LStrip(_)
LStrip(s) ==
  IF s # <<>> /\ Head(s) \in Whitespace THEN LStrip(Tail(s)) ELSE s

\* str.rstrip()
RECURSIVE RStrip(_)
RStrip(s) ==
  IF s # <<>> /\ s[Len(s)] \in Whitespace
    THEN RStrip(SubSeq(s, 1, Len(s) - 1))
    ELSE s

\* str.strip(), lines 45 and 58
Strip(s) == RStrip(LStrip(s))

\* mutant of Overflows: the joining space is not counted
Overflows_SpaceNotCounted(current_chunk, word, max_length) ==
  Len(current_chunk) + Len(word) > max_length

\* split_text_on_words, line 43
Overflows(current_chunk, word, max_length) ==
  Len(current_chunk) + Len(word) + 1 > max_length

\* mutant of StartChunk: the word that did not fit is lost
StartChunk_Empty(word) == <<>>

\* split_text_on_words, line 46: the word that did not fit starts the next
\* chunk
StartChunk(word) == word

\* mutant of LastChunk: the chunk being filled when the words end is lost
LastChunk_Dropped(chunks, current_chunk) == chunks

\* split_text_on_words, lines 57-58
LastChunk(chunks, current_chunk) ==
  IF current_chunk # <<>> THEN Append(chunks, Strip(current_chunk)) ELSE chunks

\* split_text_on_words, lines 41-58: the loop from word i on, then the last
\* chunk
RECURSIVE Pack(_, _, _, _, _)
Pack(words, i, chunks, current_chunk, max_length) ==
  IF i > Len(words)
    THEN LastChunk(chunks, current_chunk)
    ELSE LET word == words[i]
         IN IF Overflows(current_chunk, word, max_length)
              THEN IF current_chunk # <<>>
                     THEN Pack(words, i + 1, Append(chunks, Strip(current_chunk)),
                               StartChunk(word), max_length)
                     ELSE Pack(words, i + 1, Append(chunks, word),
                               current_chunk, max_length)
              ELSE IF current_chunk # <<>>
                     THEN Pack(words, i + 1, chunks,
                               current_chunk \o <<" ">> \o word, max_length)
                     ELSE Pack(words, i + 1, chunks, word, max_length)

\* TextExtractor.split_text_on_words, lines 20-61
split_text_on_words(text, max_length) ==
  IF Len(text) <= max_length
    THEN text
    ELSE Join(<<"\n", "\n">>, Pack(Split(text), 1, <<>>, <<>>, max_length))

\* a text and a max_length are chosen
InitSplit ==
  /\ CrawlerAtRest
  /\ call \in [fn : {"split_text_on_words"}, text : Texts(MaxTextLen),
               max_length : 1..MaxLengthBound]
  /\ ret = <<>>

\* split_text_on_words(text, max_length) is evaluated
SplitText ==
  /\ ret = <<>>
  /\ ret' = <<split_text_on_words(call.text, call.max_length)>>
  /\ UNCHANGED <<run, call>>

\* split_text_on_words is evaluated on its own result
SplitAgain ==
  /\ Len(ret) = 1
  /\ ret' = Append(ret, split_text_on_words(ret[1], call.max_length))
  /\ UNCHANGED <<run, call>>

NextSplit ==
  \/ SplitText
  \/ SplitAgain

SpecSplit == InitSplit /\ [][NextSplit]_vars

\* the pieces of s between the joins "\n\n", as s.split("\n\n") gives them
RECURSIVE PiecesFrom(_, _, _)
PiecesFrom(s, i, cur) ==
  IF i > Len(s)
    THEN <<cur>>
    ELSE IF i < Len(s) /\ s[i] = "\n" /\ s[i + 1] = "\n"
           THEN <<cur>> \o PiecesFrom(s, i + 2, <<>>)
           ELSE PiecesFrom(s, i + 1, Append(cur, s[i]))

Pieces(s) == PiecesFrom(s, 1, <<>>)

\* C13: split_text_on_words never drops, adds or reorders words: the
\* sequence of whitespace-delimited words of the output equals that of the
\* input, for every text and every max_length >= 1.
C13_WordsPreserved ==
  ret # <<>> => Split(ret[1]) = Split(call.text)

\* C13 witness: a text longer than max_length with three words or more was
\* split into two chunks or more.
C13_Witness ==
  /\ ret # <<>>
  /\ Len(call.text) > call.max_length
  /\ Len(Split(call.text)) >= 3
  /\ \E i, j \in 1..Len(Split(call.text)) : Split(call.text)[i] # Split(call.text)[j]
  /\ Len(Pieces(ret[1])) >= 2

\* C14: split_text_on_words is idempotent: applied to its own result with
\* the same max_length it returns that result.
C14_Idempotent ==
  Len(ret) = 2 => ret[2] = ret[1]

\* C14 witness: both applications went through the packing loop, the first
\* one changed the text.
C14_Witness ==
  /\ Len(ret) = 2
  /\ Len(call.text) > call.max_length
  /\ Len(ret[1]) > call.max_length
  /\ ret[1] # call.text
  /\ Len(Pieces(ret[1])) >= 2

\* C20: split_text_on_words returns the text unchanged when len(text) <=
\* max_length; otherwise every chunk of the output is at most max_length long
\* unless it is exactly one word, and a word longer than max_length is alone
\* in its chunk, unshortened.
C20_ChunkBound ==
  ret # <<>> =>
    /\ Len(call.text) <= call.max_length => ret[1] = call.text
    /\ Len(call.text) > call.max_length =>
         /\ \A k \in 1..Len(Pieces(ret[1])) :
              LET chunk == Pieces(ret[1])[k]
              IN /\ Len(chunk) <= call.max_length \/ Len(Split(chunk)) = 1
                 /\ \A w \in Range(Split(chunk)) :
                      Len(w) > call.max_length => chunk = w
         /\ \A w \in Range(Split(call.text)) :
              Len(w) > call.max_length => w \in Range(Pieces(ret[1]))

\* C20 witness: a text longer than max_length was split into a word longer
\* than max_length and a chunk within max_length.
C20_Witness ==
  /\ ret # <<>>
  /\ Len(call.text) > call.max_length
  /\ \E k \in 1..Len(Pieces(ret[1])) : Len(Pieces(ret[1])[k]) > call.max_length
  /\ \E k \in 1..Len(Pieces(ret[1])) :
       /\ Pieces(ret[1])[k] # <<>>
       /\ Len(Pieces(ret[1])[k]) <= call.max_length

\* ---------------------------------------- TextExtractor.extract_code_blocks

\* most nodes of a parsed document
MaxNodes == 5

\* the element names of the documents
ElementTags == {"pre", "code", "span"}

\* the strings of the documents' text nodes
TextStrings == {<<" ">>, <<"x", " ">>, <<"y">>}

\* the nodes a parser can add: an element, or a text node with its string
NodeKinds ==
  [tag : ElementTags, string : {<<>>}] \cup [tag : {"#text"}, string : TextStrings]

\* the elements still open after node i of soup, soup itself (0) included:
\* node i if it is an element, and its ancestors
RECURSIVE OpenAt(_, _)
OpenAt(soup, i) ==
  IF i = 0 THEN {0}
  ELSE (IF soup[i].tag # "#text" THEN {i} ELSE {}) \cup OpenAt(soup, soup[i].parent)

\* code.find_parent(name), line 158: the nearest ancestor of node i with that
\* name, 0 for None
RECURSIVE find_parent(_, _, _)
find_parent(soup, i, name) ==
  LET p == soup[i].parent
  IN IF p = 0 THEN 0
     ELSE IF soup[p].tag = name THEN p
     ELSE find_parent(soup, p, name)

\* node j lies inside element i
RECURSIVE Inside(_, _, _)
Inside(soup, j, i) ==
  LET p == soup[j].parent
  IN IF p = 0 THEN FALSE
     ELSE IF p = i THEN TRUE
     ELSE Inside(soup, p, i)

\* soup.find_all(name), lines 148 and 156: the elements of that name in
\* document order, from node i on
RECURSIVE find_all(_, _, _)
find_all(soup, name, i) ==
  IF i > Len(soup) THEN <<>>
  ELSE (IF soup[i].tag = name THEN <<i>> ELSE <<>>) \o find_all(soup, name, i + 1)

\* element.get_text(), lines 151 and 161: the strings inside element i, in
\* document order, from node j on
RECURSIVE get_text(_, _, _)
get_text(soup, i, j) ==
  IF j > Len(soup) THEN <<>>
  ELSE (IF soup[j].tag = "#text" /\ Inside(soup, j, i) THEN soup[j].string ELSE <<>>)
       \o get_text(soup, i, j + 1)

\* lines 151-153 and 161-163: the stripped text of element i, if not empty
BlockOf(soup, i) ==
  LET code_text == Strip(get_text(soup, i, 1))
  IN IF code_text # <<>> THEN <<code_text>> ELSE <<>>

\* lines 148-153: the loop over the pre elements, from the k-th on
RECURSIVE PrePass(_, _, _, _)
PrePass(soup, pres, k, code_blocks) ==
  IF k > Len(pres) THEN code_blocks
  ELSE PrePass(soup, pres, k + 1, code_blocks \o BlockOf(soup, pres[k]))

\* mutant of InsidePre: only the direct parent is looked at
InsidePre_DirectParentOnly(soup, i) ==
  soup[i].parent # 0 /\ soup[soup[i].parent].tag = "pre"

\* line 158: if code.find_parent('pre')
InsidePre(soup, i) == find_parent(soup, i, "pre") # 0

\* lines 156-163: the loop over the code elements, from the k-th on
RECURSIVE CodePass(_, _, _, _)
CodePass(soup, codes, k, code_blocks) ==
  IF k > Len(codes) THEN code_blocks
  ELSE IF InsidePre(soup, codes[k])
         THEN CodePass(soup, codes, k + 1, code_blocks)
         ELSE CodePass(soup, codes, k + 1, code_blocks \o BlockOf(soup, codes[k]))

\* TextExtractor.extract_code_blocks, lines 132-165
extract_code_blocks(soup) ==
  CodePass(soup, find_all(soup, "code", 1), 1,
           PrePass(soup, find_all(soup, "pre", 1), 1, <<>>))

\* an empty document
InitCode ==
  /\ CrawlerAtRest
  /\ call = [fn |-> "extract_code_blocks", soup |-> <<>>]
  /\ ret = <<>>

\* the parser adds the next node of the document, inside an open element
ParseNode ==
  /\ ret = <<>>
  /\ Len(call.soup) < MaxNodes
  /\ \E kind \in NodeKinds, parent \in OpenAt(call.soup, Len(call.soup)) :
       call' = [call EXCEPT !.soup =
                  Append(@, [tag |-> kind.tag, string |-> kind.string,
                             parent |-> parent])]
  /\ UNCHANGED <<run, ret>>

\* extract_code_blocks(soup) is evaluated
ExtractCodeBlocks ==
  /\ ret = <<>>
  /\ ret' = <<extract_code_blocks(call.soup)>>
  /\ UNCHANGED <<run, call>>

NextCode ==
  \/ ParseNode
  \/ ExtractCodeBlocks

SpecCode == InitCode /\ [][NextCode]_vars

\* the k-th smallest element of a set of node numbers
Nth(S, k) == CHOOSE i \in S : Cardinality({j \in S : j < i}) = k - 1

\* the pre elements of soup whose text is not empty after trimming
PreBlocks(soup) ==
  {i \in 1..Len(soup) : soup[i].tag = "pre" /\ Strip(get_text(soup, i, 1)) # <<>>}

\* the code elements of soup with no pre ancestor whose text is not empty
\* after trimming
CodeBlocks(soup) ==
  {i \in 1..Len(soup) :
     /\ soup[i].tag = "code"
     /\ ~ \E p \in 1..Len(soup) : soup[p].tag = "pre" /\ Inside(soup, i, p)
     /\ Strip(get_text(soup, i, 1)) # <<>>}

\* C15: extract_code_blocks returns the trimmed text of every pre element in
\* document order, followed by the trimmed text of every code element with
\* no pre ancestor in document order, without the entries that are empty
\* after trimming; a code element inside a pre gives no entry of its own.
C15_CodeBlocks ==
  ret # <<>> =>
    LET soup == call.soup
        pres == PreBlocks(soup)
        codes == CodeBlocks(soup)
        np == Cardinality(pres)
    IN /\ Len(ret[1]) = np + Cardinality(codes)
       /\ \A k \in 1..np : ret[1][k] = Strip(get_text(soup, Nth(pres, k), 1))
       /\ \A k \in 1..Cardinality(codes) :
            ret[1][np + k] = Strip(get_text(soup, Nth(codes, k), 1))

\* C15 witness: the document <pre><code>y</code></pre><code>x </code> gave
\* the blocks "y" and "x".
C15_Witness ==
  /\ ret = << << <<"y">>, <<"x">> >> >>
  /\ Len(call.soup) = 5
  /\ call.soup[1].tag = "pre"
  /\ call.soup[2].tag = "code" /\ call.soup[2].parent = 1
  /\ call.soup[3].string = <<"y">> /\ call.soup[3].parent = 2
  /\ call.soup[4].tag = "code" /\ call.soup[4].parent = 0
  /\ call.soup[5].string = <<"x", " ">> /\ call.soup[5].parent = 4

\* ------------------------------------- crawl_page: the resolution of a link

\* '/a/../b'
HrefDotDot == <<"/","a","/",".",".","/","b">>
\* '/./b'
HrefDot == <<"/",".","/","b">>
\* '/b?q'
HrefQuery == <<"/","b","?","q">>

\* the href attributes of the anchors whose resolution is evaluated
ResolveHrefs == Hrefs \cup {HrefDotDot, HrefDot, HrefQuery}

\* the pages the anchors are found on: the seed and pages its links lead to
PageUrls ==
  {SeedDocs, UrlJoin(SeedDocs, HrefPage2), UrlJoin(SeedDocs, HrefNetPath),
   UrlJoin(SeedDocs, HrefPdf)}

\* crawl_page(url, depth) has reached an anchor with that href
InitResolve ==
  /\ CrawlerAtRest
  /\ call \in [fn : {"crawl_page"}, url : PageUrls, depth : 0..MaxDepthBound,
               href : ResolveHrefs]
  /\ ret = <<>>

\* line 139 is false: the anchor is passed over
SkipLink ==
  /\ ret = <<>>
  /\ ~ LinkAccepted(call.url, call.href)
  /\ ret' = <<[followed |-> FALSE, raised |-> FALSE]>>
  /\ UNCHANGED <<run, call>>

\* line 142 raises: urljoin cannot split the href
ResolveRaises ==
  /\ ret = <<>>
  /\ LinkAccepted(call.url, call.href)
  /\ StartsWith(call.href, <<"/">>) /\ UrlSplitRaises(call.href)
  /\ ret' = <<[followed |-> FALSE, raised |-> TRUE]>>
  /\ UNCHANGED <<run, call>>

\* lines 140-144: the arguments of the recursive call
ResolveLink ==
  /\ ret = <<>>
  /\ LinkAccepted(call.url, call.href)
  /\ ~ (StartsWith(call.href, <<"/">>) /\ UrlSplitRaises(call.href))
  /\ ret' = <<[followed |-> TRUE, raised |-> FALSE,
               next_url |-> NextUrl(call.href),
               depth |-> NextDepth(call.depth)]>>
  /\ UNCHANGED <<run, call>>

NextResolve ==
  \/ SkipLink
  \/ ResolveRaises
  \/ ResolveLink

SpecResolve == InitResolve /\ [][NextResolve]_vars

\* the seed's scheme and host: 'https://ex.com'
SeedOrigin == Scheme(config.base_url) \o <<":","/","/">> \o Netloc(config.base_url)

\* the path of the href holds a '.' or '..' segment
HasDotSegment(href) ==
  \E seg \in Range(SplitAt(Path(href), "/", 1, <<>>)) : seg \in {<<".">>, <<".", ".">>}

HttpsPrefix == <<"h","t","t","p","s",":","/","/">>

\* the hosts of the URLs tested: the seed's, 'ex.com', and 'evil.io'
UrlHosts == {<<"e","x",".","c","o","m">>, <<"e","v","i","l",".","i","o">>}

\* the paths of the URLs tested: '/docs/page1', '/docs/page2', '/a.pdf',
\* '/A.PDF', '/b.js'
UrlPaths ==
  {<<"/","d","o","c","s","/","p","a","g","e","1">>,
   <<"/","d","o","c","s","/","p","a","g","e","2">>,
   <<"/","a",".","p","d","f">>,
   <<"/","A",".","P","D","F">>,
   <<"/","b",".","j","s">>}

\* what follows the path: nothing, '?v=1', '#s', '?f=x.js'
UrlSuffixes ==
  {<<>>, <<"?","v","=","1">>, <<"#","s">>, <<"?","f","=","x",".","j","s">>}

\* the URLs handed to is_valid_url
CheckedUrls ==
  {HttpsPrefix \o host \o path \o suffix :
     host \in UrlHosts, path \in UrlPaths, suffix \in UrlSuffixes}

\* the URLs the crawler may have visited before
SeenUrls == {SeedDocs, UrlJoin(SeedDocs, HrefPage2)}

\* a crawler with some pages visited is asked about a URL
InitValid ==
  /\ \E vis \in SUBSET SeenUrls : CrawlerWith(vis)
  /\ call \in [fn : {"is_valid_url"}, url : CheckedUrls]
  /\ ret = <<>>

\* is_valid_url(url) is evaluated
CheckUrl ==
  /\ ret = <<>>
  /\ ret' = <<is_valid_url(call.url, visited)>>
  /\ UNCHANGED <<run, call>>

NextValid == CheckUrl

SpecValid == InitValid /\ [][NextValid]_vars

\* the path component of url ends with a non-document extension, in any case
PathHasSkipExtension(url) ==
  \E ext \in SKIP_EXTENSIONS : EndsWith(Lower(Path(url)), ext)

\* C19: is_valid_url rejects every URL whose path ends with a non-document
\* extension, compared without regard to case, also when a query string or a
\* fragment follows the path, and does not reject a same-host unvisited URL
\* whose path does not end with such an extension.
C19_ExtensionFilterOnPath ==
  ret # <<>> =>
    /\ PathHasSkipExtension(call.url) => ret[1] = FALSE
    /\ (/\ ~ PathHasSkipExtension(call.url)
        /\ Netloc(call.url) = BaseDomain
        /\ StripFragment(call.url) \notin visited) => ret[1] = TRUE

\* ------------------------------------------------------- the run, scheduled

\* main() is one sequential process: it goes on while it can. A page has
\* finitely many anchors, so the loop of every active crawl_page call ends
\* and the call returns; every fetch returns or fails within the timeout, so
\* no step blocks.
SpecLive ==
  /\ Spec
  /\ WF_vars(MainConfigError)
  /\ WF_vars(MainCrawl)
  /\ WF_vars(ReturnPage)
  /\ WF_vars(MainFinish)

\* C22: crawl() eventually returns, whatever the links (cycles and
\* self-links included), and the number of nested active crawl_page calls
\* never exceeds max_depth + 2: the calls inside their loop are at most
\* max_depth + 1, and a call is never made at a depth beyond max_depth + 1.
C22_Termination ==
  /\ [](Len(stack) <= config.max_depth + 1)
  /\ [](lastCall # <<>> =>
          /\ lastCall[1].depth <= config.max_depth + 1
          /\ Len(stack) + (IF lastCall[1].changed THEN 0 ELSE 1)
               <= config.max_depth + 2)
  /\ <>(pc = "exited" /\ stack = <<>>)

\* C22 witness: with the calls nested as deep as max_depth allows, two or
\* more, an anchor led back to a page already visited.
C22_Witness ==
  /\ config.max_depth >= 1
  /\ Len(stack) = config.max_depth + 1
  /\ lastCall # <<>>
  /\ ~ lastCall[1].fresh
  /\ lastCall[1].depth = config.max_depth + 1

\* the fetch of the seed failed
SeedFetchFailed == fetched # <<>> /\ fetched[1].outcome # "ok"

\* C23: when the fetch of the seed fails, crawl() does not raise: the
\* documents stay empty, the seed is the only URL visited and fetched, no
\* call is left active, the one step main() can take is to finish, and it
\* finishes with the output written, the status "success" and exit code 0.
C23_SeedFailureIsSuccess ==
  SeedFetchFailed =>
    /\ documents = <<>>
    /\ visited = {config.base_url}
    /\ Len(fetched) = 1
    /\ fetched[1].url = config.base_url
    /\ stack = <<>>
    /\ pc \in {"crawling", "exited"}
    /\ pc = "crawling" =>
         /\ ENABLED MainFinish
         /\ ~ ENABLED FollowLink
         /\ ~ ENABLED ReturnPage
         /\ exit = <<>>
    /\ pc = "exited" =>
         /\ exit = <<0>>
         /\ outfile.written
         /\ outfile.data = <<>>
         /\ stdout.printed
         /\ stdout.docs = <<>>
         /\ stdout.status = "success"

\* C23 witness: a run whose seed fetch failed has exited with code 0.
C23_Witness ==
  /\ SeedFetchFailed
  /\ pc = "exited"
  /\ exit = <<0>>
  /\ outfile.written

\* --------------------------------------- TextExtractor.extract_text_content

\* max_length: int = 5000
DefaultMaxLength == 5000

\* line 85: the names find_all looks for
HeadingTags == {"h1", "h2", "h3", "h4", "h5", "h6"}

\* the element names of the documents sectioned: a heading of the first four
\* levels, a heading of the last two, and an element that is no heading.
\* The documents hold none of script, style, nav, footer, header (lines
\* 76-77) and none of main, article, div.content (lines 80-82), so that
\* main_content is the document
SectionTags == {"h2", "h5", "p"}

\* the nodes a parser can add to these documents
SectionNodeKinds ==
  [tag : SectionTags, string : {<<>>}] \cup [tag : {"#text"}, string : TextStrings]

\* main_content.find_all(names), line 85: the elements with one of the
\* names in document order, from node i on
RECURSIVE find_all_of(_, _, _)
find_all_of(soup, names, i) ==
  IF i > Len(soup) THEN <<>>
  ELSE (IF soup[i].tag \in names THEN <<i>> ELSE <<>>) \o find_all_of(soup, names, i + 1)

\* element.get_text(strip=True), lines 98 and 108: the strings inside
\* element i, each stripped, the empty ones left out, from node j on
RECURSIVE get_text_strip(_, _, _)
get_text_strip(soup, i, j) ==
  IF j > Len(soup) THEN <<>>
  ELSE (IF soup[j].tag = "#text" /\ Inside(soup, j, i) THEN Strip(soup[j].string) ELSE <<>>)
       \o get_text_strip(soup, i, j + 1)

\* lines 107-114: the text of a sibling, an element or a string
SiblingText(soup, j) ==
  IF soup[j].tag = "#text" THEN Strip(soup[j].string) ELSE get_text_strip(soup, j, 1)

\* mutant of StopsScan: every heading ends the scan
StopsScan_AnyHeading(name) == name \in HeadingTags

\* line 104: sibling.name in ['h1', 'h2', 'h3', 'h4']
StopsScan(name) == name \in {"h1", "h2", "h3", "h4"}

\* lines 102-114: the loop over heading.next_siblings, from node j on (the
\* following siblings of h are the later nodes with h's parent)
RECURSIVE SiblingScan(_, _, _, _)
SiblingScan(soup, h, j, content_elements) ==
  IF j > Len(soup) THEN content_elements
  ELSE IF soup[j].parent # soup[h].parent
         THEN SiblingScan(soup, h, j + 1, content_elements)
  ELSE IF StopsScan(soup[j].tag) THEN content_elements
  ELSE LET text == SiblingText(soup, j)
       IN SiblingScan(soup, h, j + 1,
            IF text # <<>> THEN Append(content_elements, text) ELSE content_elements)

\* lines 96-124: the loop over the headings, from the k-th on
RECURSIVE SectionsLoop(_, _, _, _)
SectionsLoop(soup, headings, k, sections) ==
  IF k > Len(headings) THEN sections
  ELSE LET heading_text == get_text_strip(soup, headings[k], 1)
           content_text == Join(<<"\n">>, SiblingScan(soup, headings[k], headings[k] + 1, <<>>))
           section == <<"\n", "\n">> \o heading_text
                        \o (IF content_text # <<>> THEN <<"\n">> \o content_text ELSE <<>>)
       IN SectionsLoop(soup, headings, k + 1,
            IF heading_text # <<>> \/ content_text # <<>>
            THEN Append(sections, section) ELSE sections)

\* line 89-90: the stripped strings of the document that are not empty, from
\* node j on (the strings of the model hold no line break, so that each is
\* one line)
RECURSIVE Lines(_, _)
Lines(soup, j) ==
  IF j > Len(soup) THEN <<>>
  ELSE (IF soup[j].tag = "#text" /\ Strip(soup[j].string) # <<>>
        THEN <<Strip(soup[j].string)>> ELSE <<>>) \o Lines(soup, j + 1)

\* lines 85-127: content, before it is split
ContentOf(soup) ==
  LET headings == find_all_of(soup, HeadingTags, 1)
  IN IF headings = <<>>
     THEN <<"\n", "\n">> \o Join(<<"\n">>, Lines(soup, 1))
     ELSE LET sections == SectionsLoop(soup, headings, 1, <<>>)
          IN IF sections # <<>> THEN Join(<<>>, sections) ELSE <<"\n", "\n">>

\* TextExtractor.extract_text_content, lines 63-130
extract_text_content(soup, max_length) ==
  split_text_on_words(ContentOf(soup), max_length)

\* an empty document
InitText ==
  /\ CrawlerAtRest
  /\ call = [fn |-> "extract_text_content", soup |-> <<>>]
  /\ ret = <<>>

\* the parser adds the next node of the document, inside an open element; it
\* never leaves two strings side by side
ParseSectionNode ==
  /\ ret = <<>>
  /\ Len(call.soup) < MaxNodes
  /\ \E kind \in SectionNodeKinds, parent \in OpenAt(call.soup, Len(call.soup)) :
       /\ ~ (/\ kind.tag = "#text"
             /\ call.soup # <<>>
             /\ call.soup[Len(call.soup)].tag = "#text"
             /\ call.soup[Len(call.soup)].parent = parent)
       /\ call' = [call EXCEPT !.soup =
                     Append(@, [tag |-> kind.tag, string |-> kind.string,
                                parent |-> parent])]
  /\ UNCHANGED <<run, ret>>

\* extract_text_content(soup) is evaluated, as crawl_page calls it
ExtractTextContent ==
  /\ ret = <<>>
  /\ ret' = <<extract_text_content(call.soup, DefaultMaxLength)>>
  /\ UNCHANGED <<run, call>>

NextText ==
  \/ ParseSectionNode
  \/ ExtractTextContent

SpecText == InitText /\ [][NextText]_vars

\* the headings of soup
HeadingsOf(soup) == {i \in 1..Len(soup) : soup[i].tag \in HeadingTags}

\* the following siblings of heading h that come before its first following
\* sibling of level h1 to h4, and whose text is not empty
ContentSiblings(soup, h) ==
  LET siblings == {j \in (h + 1)..Len(soup) : soup[j].parent = soup[h].parent}
      enders == {j \in siblings : soup[j].tag \in {"h1", "h2", "h3", "h4"}}
  IN {j \in siblings : (\A e \in enders : j < e) /\ SiblingText(soup, j) # <<>>}

\* the section the claim gives heading h, <<>> when it gives none
ClaimedSection(soup, h) ==
  LET siblings == ContentSiblings(soup, h)
      content == Join(<<"\n">>, [k \in 1..Cardinality(siblings) |->
                                   SiblingText(soup, Nth(siblings, k))])
      text == get_text_strip(soup, h, 1)
  IN IF text = <<>> /\ content = <<>> THEN <<>>
     ELSE <<"\n", "\n">> \o text \o (IF content # <<>> THEN <<"\n">> \o content ELSE <<>>)

====
